---- MODULE Spec2Model ----
(***************************************************************************)
(* Weather-logs: a producer publishing simulated readings to a durable     *)
(* RabbitMQ exchange (src/producer/producer.py) and a consumer that        *)
(* decodes, validates, stores and settles each message                     *)
(* (src/consumer/consumer.py).                                             *)
(*                                                                         *)
(* Specifications:                                                         *)
(*   Spec          the consumer with its broker channel and its store      *)
(*   FairSpec      Spec with the scheduling the consumer's loop gives      *)
(*   ProdSpec      the producer with its broker connection                 *)
(*   FairProdSpec  ProdSpec with the scheduling the producer's loop gives  *)
(*   ValSpec       the consumer on one message, over the decoded payloads    *)
(***************************************************************************)
EXTENDS Integers, Naturals, Sequences, FiniteSets, TLC

\* ------------------------------------------------------------------ bounds
\* Messages waiting in the durable queue when the consumer starts.
MaxMsgs == 2
\* Outages while the processes run: of the broker (every connection is lost,
\* unacked messages are requeued) and of the store, together.
MaxFaults == 1
\* Process-level interrupts (Ctrl+C) sent to a process.
MaxInterrupts == 1
\* The producer's per-session counter is shown up to this value.
MaxCount == 2

\* ------------------------------------------------------- decoded payloads
\* A JSON value held by one key of an object: the key is absent, or it holds
\* a number (v), NaN (json.loads accepts it), a boolean (v = 1 / 0), null,
\* a string, an array or an object.
Absent == [t |-> "absent", v |-> 0]
Num(n) == [t |-> "num", v |-> n]
NaN == [t |-> "nan", v |-> 0]
Bool(b) == [t |-> "bool", v |-> IF b THEN 1 ELSE 0]
Null == [t |-> "null", v |-> 0]
Str == [t |-> "str", v |-> 0]
Arr == [t |-> "array", v |-> 0]

\* What json.loads can return: an object (its four keys), an array or a
\* string (has: the required key names it contains as elements / as
\* substrings), a number, a boolean or null.
Object(sid, temp, hum, wind) ==
    [k |-> "object", station_id |-> sid, temperature_c |-> temp,
     humidity_percent |-> hum, wind_speed_ms |-> wind, has |-> {}]
NonObject(kind, has) ==
    [k |-> kind, station_id |-> Absent, temperature_c |-> Absent,
     humidity_percent |-> Absent, wind_speed_ms |-> Absent, has |-> has]

\* `key in payload`: a key of the object, an element of the array, a
\* substring of the string; a TypeError for a number, a boolean or null.
InRaises(payload) == payload.k \in {"number", "bool", "null"}
In(key, payload) ==
    IF payload.k = "object" THEN payload[key].t # "absent"
    ELSE key \in payload.has

\* payload.get(key): the value, None (Null) for an absent key; an
\* AttributeError for anything that is not an object.
GetRaises(payload) == payload.k # "object"
Get(key, payload) ==
    IF payload[key].t = "absent" THEN Null ELSE payload[key]

\* isinstance(x, (int, float)): bool is a subclass of int.
IsNumeric(x) == x.t \in {"num", "bool", "nan"}
\* x < n, x > n: every comparison with NaN is False.
Lt(x, n) == x.t # "nan" /\ x.v < n
Gt(x, n) == x.t # "nan" /\ x.v > n

\* The text of a value inside an f-string.
Fmt(x) ==
    CASE x.t = "num" -> ToString(x.v)
      [] x.t = "bool" -> IF x.v = 1 THEN "True" ELSE "False"
      [] OTHER -> "nan"

\* ---------------------------------------------------------- message bodies
\* A message body: bytes that are not valid UTF-8, text that is not JSON,
\* or the JSON text of a value.
BadBytes == [enc |-> "bad_bytes", val |-> NonObject("null", {})]
BadJson == [enc |-> "bad_json", val |-> NonObject("null", {})]
JsonOf(value) == [enc |-> "json", val |-> value]

\* json.loads(body): the value, or the exception raised. Bytes are decoded
\* as text first (UnicodeDecodeError, a ValueError that is not a
\* JSONDecodeError), then parsed (JSONDecodeError).
json_loads(body) ==
    CASE body.enc = "bad_bytes" -> [raised |-> "UnicodeDecodeError", val |-> body.val]
      [] body.enc = "bad_json" -> [raised |-> "JSONDecodeError", val |-> body.val]
      [] OTHER -> [raised |-> "", val |-> body.val]

\* The body is decodable as structured data.
Decodable(body) == body.enc = "json"

\* ---------------------------------------------------------------- validator
Verdict(valid, status, reason) ==
    [raised |-> FALSE, valid |-> valid, status |-> status, reason |-> reason]
Raised == [raised |-> TRUE, valid |-> FALSE, status |-> "", reason |-> <<>>]

\* The three `not in` tests, in order.
MissingKeyReordered(payload) ==
    IF ~In("temperature_c", payload) THEN "temperature_c"
    ELSE IF ~In("station_id", payload) THEN "station_id"
    ELSE IF ~In("humidity_percent", payload) THEN "humidity_percent"
    ELSE ""
MissingKey(payload) ==
    IF ~In("station_id", payload) THEN "station_id"
    ELSE IF ~In("temperature_c", payload) THEN "temperature_c"
    ELSE IF ~In("humidity_percent", payload) THEN "humidity_percent"
    ELSE ""

\* The rules after the required keys, on an object.
validate_ranges(payload) ==
    LET temp == Get("temperature_c", payload)
        humidity == Get("humidity_percent", payload)
        wind == Get("wind_speed_ms", payload)
    IN  IF ~IsNumeric(temp)
        THEN Verdict(FALSE, "invalid_type", <<"temperatura no es numerica">>)
        ELSE IF Lt(temp, -100) \/ Gt(temp, 100)
        THEN Verdict(FALSE, "out_of_range",
                     <<"temperatura ", Fmt(temp), "C fuera de rango [-100, 100]">>)
        ELSE IF ~IsNumeric(humidity)
        THEN Verdict(FALSE, "invalid_type", <<"humedad no es numerica">>)
        ELSE IF Lt(humidity, 0) \/ Gt(humidity, 100)
        THEN Verdict(FALSE, "out_of_range",
                     <<"humedad ", Fmt(humidity), "% debe estar [0, 100]">>)
        ELSE IF wind.t # "null" /\ ~IsNumeric(wind)
        THEN Verdict(FALSE, "invalid_type", <<"viento no es numerico">>)
        ELSE IF wind.t # "null" /\ Lt(wind, 0)
        THEN Verdict(FALSE, "out_of_range",
                     <<"viento ", Fmt(wind), " m/s no puede ser negativo">>)
        ELSE Verdict(TRUE, "ok", <<>>)

\* validate_payload(payload): (es_valido, estado, motivo), or an exception.
validate_payload(payload) ==
    IF InRaises(payload) THEN Raised
    ELSE IF MissingKey(payload) # ""
    THEN Verdict(FALSE, "invalid", <<"falta ", MissingKey(payload)>>)
    ELSE IF GetRaises(payload) THEN Raised
    ELSE validate_ranges(payload)

\* ------------------------------------------------------------------- state
VARIABLES
    msgs,          \* the bodies published to the queue, by message id
    queue,         \* broker: the ids ready in weather_queue, oldest first
    unacked,       \* broker: deliveries outstanding on the consumer's channel
    nextTag,       \* broker: the channel's next delivery tag
    brokerUp,      \* broker: reachable
    chan,          \* consumer: rabbit_conn / ch
    inbox,         \* consumer: deliveries received, callback not yet run
    storeUp,       \* store: reachable
    dbConn,        \* consumer: db_conn
    rows,          \* store: the rows of weather_logs, in insertion order
    cpc,           \* consumer: where main() / the callback stands
    cur,           \* consumer: the delivery the callback is handling
    verdict,       \* consumer: validate_payload's result for cur
    failed,        \* history: what has failed so far in handling cur
    afterRecovery, \* history: cur arrived with the store back up, and it stayed up
    stopping,      \* consumer: main() is leaving its loop
    fate,          \* history: the settle signal each message got
    chanSettled,   \* history: the delivery tags settled on this channel
    closeLog,      \* history: the close() calls of the current cleanup
    brokerFaults, storeFaults, interrupts,
    ppc,           \* producer: where main() stands
    pConn,         \* producer: conn / ch
    message_count, \* producer: message_count
    declared,      \* history: exchange declarations issued in this session
    pRaising,      \* producer: a KeyboardInterrupt is propagating
    pInterrupts

brokerVars == <<queue, unacked, nextTag, brokerUp, brokerFaults>>
storeVars == <<storeUp, rows, storeFaults>>
cbVars == <<cur, verdict, failed, afterRecovery>>
consVars == <<chan, inbox, dbConn, cpc, cbVars, stopping, interrupts>>
histVars == <<msgs, fate, chanSettled, closeLog>>
prodVars == <<ppc, pConn, message_count, declared, pRaising, pInterrupts>>
vars == <<brokerVars, storeVars, consVars, histVars, prodVars>>

\* The bodies the queue is filled with: undecodable bytes, undecodable
\* text, a reading that validates, a JSON number and a JSON array.
Reading1 == Object(Str, Num(22), Num(55), Num(3))
Bodies ==
    {BadBytes, BadJson, JsonOf(Reading1),
     JsonOf(NonObject("number", {})), JsonOf(NonObject("array", {}))}

Ids == DOMAIN msgs
NoDelivery == [tag |-> 0, id |-> 0]
NoVerdict == Raised
NoChannel == [state |-> "none", link |-> FALSE, prefetch |-> 0, consuming |-> FALSE]
NoConn == [state |-> "none", link |-> FALSE]
Running == cpc # "exited" /\ ppc # "exited"

\* ------------------------------------------------------------------ broker
RECURSIVE ByTag(_)
\* The ids of a set of deliveries, by delivery tag.
ByTag(ds) ==
    IF ds = {} THEN <<>>
    ELSE LET d == CHOOSE x \in ds : \A y \in ds : x.tag <= y.tag
         IN  <<d.id>> \o ByTag(ds \ {d})

\* The channel is gone: the broker puts its unacked messages back at the
\* head of the queue.
Requeued == ByTag(unacked) \o queue

\* ch.basic_qos(prefetch_count=1)
BasicQosSkipped(ch) == ch
BasicQos(ch) == [ch EXCEPT !.prefetch = 1]

\* The broker pushes the next ready message to the consumer: only to a
\* consuming channel, and only while fewer than prefetch deliveries are
\* outstanding on it (0: no limit).
BrokerDeliver ==
    /\ brokerUp /\ chan.link /\ chan.consuming
    /\ queue # <<>>
    /\ chan.prefetch = 0 \/ Cardinality(unacked) < chan.prefetch
    /\ LET d == [tag |-> nextTag, id |-> Head(queue)]
       IN  /\ unacked' = unacked \cup {d}
           /\ inbox' = Append(inbox, d)
    /\ nextTag' = nextTag + 1
    /\ queue' = Tail(queue)
    /\ UNCHANGED <<brokerUp, brokerFaults, storeVars, chan, dbConn, cpc, cbVars,
                   stopping, interrupts, histVars, prodVars>>

\* The broker goes away: every connection is lost and the durable queue
\* keeps its messages, the unacked ones included.
BrokerFault ==
    /\ Running
    /\ brokerUp /\ brokerFaults + storeFaults < MaxFaults
    /\ brokerUp' = FALSE
    /\ brokerFaults' = brokerFaults + 1
    /\ queue' = Requeued
    /\ unacked' = {}
    /\ chan' = [chan EXCEPT !.link = FALSE]
    /\ pConn' = [pConn EXCEPT !.link = FALSE]
    /\ UNCHANGED <<nextTag, storeVars, inbox, dbConn, cpc, cbVars, stopping,
                   interrupts, histVars, ppc, message_count, declared, pRaising,
                   pInterrupts>>

BrokerRecover ==
    /\ Running
    /\ ~brokerUp
    /\ brokerUp' = TRUE
    /\ UNCHANGED <<queue, unacked, nextTag, brokerFaults, storeVars, consVars,
                   histVars, prodVars>>

\* ------------------------------------------------------------------- store
\* The store goes away. The consumer's connection is reset with it (a
\* server restart) or outlives a short outage.
StoreFault ==
    /\ Running
    /\ storeUp /\ brokerFaults + storeFaults < MaxFaults
    /\ storeUp' = FALSE
    /\ storeFaults' = storeFaults + 1
    /\ \E reset \in BOOLEAN :
         dbConn' = IF reset /\ dbConn = "open" THEN "broken" ELSE dbConn
    /\ afterRecovery' = FALSE
    /\ UNCHANGED <<rows, brokerVars, chan, inbox, cpc, cur, verdict, failed,
                   stopping, interrupts, histVars, prodVars>>

StoreRecover ==
    /\ Running
    /\ ~storeUp
    /\ storeUp' = TRUE
    /\ UNCHANGED <<rows, storeFaults, brokerVars, consVars, histVars, prodVars>>

\* ---------------------------------------------------------------- persister
\* final_status = status if status == 'ok' else error_reason
final_status(status, error_reason) ==
    IF status = "ok" THEN <<"ok">> ELSE error_reason

\* The row insert_into_db builds from a payload (msg: the message it came
\* from, kept for the record).
Row(id, payload, status, error_reason) ==
    [msg |-> id,
     station_id |-> Get("station_id", payload),
     temperature_c |-> Get("temperature_c", payload),
     humidity_percent |-> Get("humidity_percent", payload),
     wind_speed_ms |-> Get("wind_speed_ms", payload),
     raw_payload |-> payload,
     status |-> final_status(status, error_reason)]

\* insert_into_db(db_conn, payload, status, error_reason): what it returns and
\* what it leaves of the store and of the connection. Everything raised inside
\* is caught: cursor() on a connection that is no longer open, payload.get on
\* a payload that is not an object, execute() with the store unreachable
\* (which also breaks the connection).
insert_into_dbAlwaysTrue(id, payload, status, error_reason) ==
    IF dbConn # "open" \/ GetRaises(payload)
    THEN [ok |-> TRUE, rows |-> rows, dbConn |-> dbConn]
    ELSE IF ~storeUp
    THEN [ok |-> TRUE, rows |-> rows, dbConn |-> "broken"]
    ELSE [ok |-> TRUE, rows |-> Append(rows, Row(id, payload, status, error_reason)),
          dbConn |-> dbConn]
insert_into_db(id, payload, status, error_reason) ==
    IF dbConn # "open" \/ GetRaises(payload)
    THEN [ok |-> FALSE, rows |-> rows, dbConn |-> dbConn]
    ELSE IF ~storeUp
    THEN [ok |-> FALSE, rows |-> rows, dbConn |-> "broken"]
    ELSE [ok |-> TRUE, rows |-> Append(rows, Row(id, payload, status, error_reason)),
          dbConn |-> dbConn]

\* ------------------------------------------------------ consumer: the callback
\* ch.basic_ack / ch.basic_nack on a live channel: the broker drops the
\* delivery from the channel's unacked set; a nack with requeue puts the
\* message back in the queue.
Settle(d, sig, requeue) ==
    /\ unacked' = unacked \ {d}
    /\ queue' = IF sig = "nack" /\ requeue THEN <<d.id>> \o queue ELSE queue
    /\ fate' = [fate EXCEPT ![d.id] = sig]
    /\ chanSettled' = Append(chanSettled, d.tag)

\* The JSONDecodeError handler: ch.basic_ack(delivery_tag), so that a message
\* that cannot be parsed does not block the queue.
SettleUndecodableSkipped(d) == UNCHANGED <<unacked, queue, fate, chanSettled>>
SettleUndecodable(d) == Settle(d, "ack", FALSE)

\* No callback is running.
NoCallback ==
    /\ cur' = NoDelivery
    /\ verdict' = NoVerdict
    /\ failed' = "none"
    /\ afterRecovery' = FALSE

\* The callback is over: back in start_consuming.
CallbackReturns ==
    /\ cpc' = "waiting"
    /\ NoCallback

\* A pika call found the connection gone: the exception leaves the callback
\* and start_consuming, into main's `except Exception`.
RaiseToMain ==
    /\ cpc' = "except_sleep"
    /\ NoCallback
    /\ chan' = [chan EXCEPT !.state = "closed", !.consuming = FALSE]
    /\ inbox' = <<>>

\* The handler a json.loads / validate_payload outcome leads to: the
\* JSONDecodeError handler, the `except Exception` handler, or on to the
\* store call.
AfterDecodeByVerdict(decoded, v) ==
    IF decoded.raised = "JSONDecodeError" THEN "ack_undecodable"
    ELSE IF decoded.raised # "" \/ v.raised \/ ~v.valid THEN "nack"
    ELSE "insert"
AfterDecode(decoded, v) ==
    IF decoded.raised = "JSONDecodeError" THEN "ack_undecodable"
    ELSE IF decoded.raised # "" \/ v.raised THEN "nack"
    ELSE "insert"

\* on_message_received, up to the store call: json.loads and
\* validate_payload.
on_message_received ==
    /\ cpc = "waiting" /\ inbox # <<>>
    /\ LET d == Head(inbox)
           decoded == json_loads(msgs[d.id])
           v == validate_payload(decoded.val)
       IN  /\ cur' = d
           /\ afterRecovery' = (storeUp /\ storeFaults > 0)
           /\ cpc' = AfterDecode(decoded, v)
           /\ verdict' = IF decoded.raised # "" THEN NoVerdict ELSE v
           /\ failed' = IF decoded.raised # "" THEN "decode"
                        ELSE IF v.raised THEN "validate" ELSE "none"
    /\ inbox' = Tail(inbox)
    /\ UNCHANGED <<brokerVars, storeVars, chan, dbConn, stopping, interrupts,
                   histVars, prodVars>>

\* insert_into_db(db_conn, payload, status, reason): its result is dropped.
store_step ==
    /\ cpc = "insert"
    /\ LET r == insert_into_db(cur.id, json_loads(msgs[cur.id]).val,
                               verdict.status, verdict.reason)
       IN  /\ rows' = r.rows
           /\ dbConn' = r.dbConn
           /\ failed' = IF r.ok THEN "none" ELSE "persist"
    /\ cpc' = "ack"
    /\ UNCHANGED <<brokerVars, storeUp, storeFaults, chan, inbox, cur, verdict,
                   afterRecovery, stopping, interrupts, histVars, prodVars>>

\* ch.basic_ack(delivery_tag) after the store call. When it raises (the
\* connection is gone), the `except Exception` handler runs.
ack_step ==
    /\ cpc = "ack"
    /\ IF chan.link
       THEN /\ Settle(cur, "ack", FALSE)
            /\ CallbackReturns
       ELSE /\ cpc' = "nack"
            /\ UNCHANGED <<unacked, queue, fate, chanSettled, cbVars>>
    /\ UNCHANGED <<nextTag, brokerUp, brokerFaults, storeVars, chan, inbox, dbConn,
                   stopping, interrupts, msgs, closeLog, prodVars>>

\* ch.basic_ack(delivery_tag) in the JSONDecodeError handler: an exception
\* raised here leaves the callback.
ack_undecodable ==
    /\ cpc = "ack_undecodable"
    /\ IF chan.link
       THEN /\ SettleUndecodable(cur)
            /\ CallbackReturns
            /\ UNCHANGED <<chan, inbox>>
       ELSE /\ RaiseToMain
            /\ UNCHANGED <<unacked, queue, fate, chanSettled>>
    /\ UNCHANGED <<nextTag, brokerUp, brokerFaults, storeVars, dbConn, stopping,
                   interrupts, msgs, closeLog, prodVars>>

\* ch.basic_nack(delivery_tag, requeue=False) in the `except Exception`
\* handler: an exception raised here leaves the callback.
nack_step ==
    /\ cpc = "nack"
    /\ IF chan.link
       THEN /\ Settle(cur, "nack", FALSE)
            /\ CallbackReturns
            /\ UNCHANGED <<chan, inbox>>
       ELSE /\ RaiseToMain
            /\ UNCHANGED <<unacked, queue, fate, chanSettled>>
    /\ UNCHANGED <<nextTag, brokerUp, brokerFaults, storeVars, dbConn, stopping,
                   interrupts, msgs, closeLog, prodVars>>

\* --------------------------------------------------------- consumer: main()
\* connect_db(): one psycopg2.connect attempt.
connect_db ==
    /\ cpc = "connect_db"
    /\ IF storeUp
       THEN dbConn' = "open" /\ cpc' = "connect_rabbitmq"
       ELSE dbConn' = dbConn /\ cpc' = "connect_db_sleep"
    /\ UNCHANGED <<brokerVars, storeVars, chan, inbox, cbVars, stopping,
                   interrupts, histVars, prodVars>>

\* connect_db(): time.sleep(3), then the next attempt.
connect_db_sleep ==
    /\ cpc = "connect_db_sleep"
    /\ cpc' = "connect_db"
    /\ UNCHANGED <<brokerVars, storeVars, chan, inbox, dbConn, cbVars,
                   stopping, interrupts, histVars, prodVars>>

\* connect_rabbitmq(): one attempt: connection, channel, exchange, queue,
\* binding and basic_qos. A new channel numbers its deliveries from 1.
connect_rabbitmq ==
    /\ cpc = "connect_rabbitmq"
    /\ IF brokerUp
       THEN /\ chan' = BasicQos([state |-> "open", link |-> TRUE, prefetch |-> 0,
                                 consuming |-> FALSE])
            /\ nextTag' = 1
            /\ chanSettled' = <<>>
            /\ cpc' = "basic_consume"
       ELSE /\ cpc' = "connect_rabbitmq_sleep"
            /\ UNCHANGED <<chan, nextTag, chanSettled>>
    /\ UNCHANGED <<queue, unacked, brokerUp, brokerFaults, storeVars, inbox, dbConn,
                   cbVars, stopping, interrupts, msgs, fate, closeLog, prodVars>>

\* connect_rabbitmq(): time.sleep(5), then the next attempt.
connect_rabbitmq_sleep ==
    /\ cpc = "connect_rabbitmq_sleep"
    /\ cpc' = "connect_rabbitmq"
    /\ UNCHANGED <<brokerVars, storeVars, chan, inbox, dbConn, cbVars,
                   stopping, interrupts, histVars, prodVars>>

\* ch.basic_consume(queue, callback, auto_ack=False), then start_consuming.
basic_consume ==
    /\ cpc = "basic_consume"
    /\ IF chan.link
       THEN /\ chan' = [chan EXCEPT !.consuming = TRUE]
            /\ cpc' = "waiting"
            /\ UNCHANGED <<inbox, cbVars>>
       ELSE RaiseToMain
    /\ UNCHANGED <<brokerVars, storeVars, dbConn, stopping, interrupts, histVars,
                   prodVars>>

\* ch.start_consuming() finds the connection gone and raises.
start_consuming_raises ==
    /\ cpc = "waiting" /\ ~chan.link
    /\ RaiseToMain
    /\ UNCHANGED <<brokerVars, storeVars, dbConn, stopping, interrupts, histVars,
                   prodVars>>

\* The finally block's two steps, in the order the code takes them.
CleanupOrderSwapped == <<"finally_db", "finally_rabbit">>
CleanupOrder == <<"finally_rabbit", "finally_db">>

\* main's `except Exception`: time.sleep(5), then the finally block.
except_sleep ==
    /\ cpc = "except_sleep"
    /\ cpc' = CleanupOrder[1]
    /\ closeLog' = <<>>
    /\ UNCHANGED <<brokerVars, storeVars, chan, inbox, dbConn, cbVars,
                   stopping, interrupts, msgs, fate, chanSettled, prodVars>>

\* Where main() goes after the finally block: out of the loop on a `break`
\* (or a propagating KeyboardInterrupt), round the loop otherwise.
AfterFinallyFatal == "exited"
AfterFinally == IF stopping THEN "exited" ELSE "connect_db"
AfterCleanup(step) ==
    IF step = CleanupOrder[1] THEN CleanupOrder[2] ELSE AfterFinally

\* finally: if rabbit_conn and not rabbit_conn.is_closed: rabbit_conn.close().
\* The broker requeues what the channel had not settled.
finally_rabbit ==
    /\ cpc = "finally_rabbit"
    /\ IF chan.state = "open"
       THEN /\ chan' = [chan EXCEPT !.state = "closed", !.link = FALSE,
                                    !.consuming = FALSE]
            /\ closeLog' = Append(closeLog, "broker")
            /\ queue' = IF chan.link THEN Requeued ELSE queue
            /\ unacked' = IF chan.link THEN {} ELSE unacked
            /\ inbox' = <<>>
       ELSE UNCHANGED <<chan, closeLog, queue, unacked, inbox>>
    /\ cpc' = AfterCleanup("finally_rabbit")
    /\ UNCHANGED <<nextTag, brokerUp, brokerFaults, storeVars, dbConn, cbVars,
                   stopping, interrupts, msgs, fate, chanSettled, prodVars>>

\* finally: if db_conn: db_conn.close().
finally_db ==
    /\ cpc = "finally_db"
    /\ IF dbConn # "none"
       THEN dbConn' = "closed" /\ closeLog' = Append(closeLog, "store")
       ELSE UNCHANGED <<dbConn, closeLog>>
    /\ cpc' = AfterCleanup("finally_db")
    /\ UNCHANGED <<brokerVars, storeVars, chan, inbox, cbVars, stopping,
                   interrupts, msgs, fate, chanSettled, prodVars>>

\* Ctrl+C reaches the consumer. Inside main's try (connecting, consuming, in
\* the callback: no handler below main catches a KeyboardInterrupt) it is
\* caught by `except KeyboardInterrupt: break`; in the sleep of `except
\* Exception` it propagates; either way the finally block runs and main()
\* ends. Inside a close() call of the finally block the bare `except: pass`
\* swallows it and main() goes on as it was going.
InMainTry ==
    cpc \in {"connect_db", "connect_db_sleep", "connect_rabbitmq",
             "connect_rabbitmq_sleep", "basic_consume", "waiting", "insert",
             "ack", "ack_undecodable", "nack"}
InCloseCall ==
    \/ cpc = "finally_rabbit" /\ chan.state = "open"
    \/ cpc = "finally_db" /\ dbConn # "none"
KeyboardInterrupt ==
    /\ interrupts < MaxInterrupts
    /\ interrupts' = interrupts + 1
    /\ \/ /\ InMainTry \/ cpc = "except_sleep"
          /\ cpc' = CleanupOrder[1]
          /\ stopping' = TRUE
          /\ closeLog' = <<>>
          /\ NoCallback
       \/ /\ InCloseCall
          /\ UNCHANGED <<cpc, stopping, closeLog, cbVars>>
    /\ UNCHANGED <<brokerVars, storeVars, chan, inbox, dbConn, msgs, fate,
                   chanSettled, prodVars>>

\* ---------------------------------------------------------------- producer
\* connect_rabbitmq(): one attempt. A new connection starts a session.
p_connect_rabbitmq ==
    /\ ppc = "connect"
    /\ IF brokerUp
       THEN /\ pConn' = [state |-> "open", link |-> TRUE]
            /\ declared' = 0
            /\ ppc' = "declare"
       ELSE /\ ppc' = "connect_sleep"
            /\ UNCHANGED <<pConn, declared>>
    /\ UNCHANGED <<message_count, pRaising, pInterrupts, brokerVars, storeVars,
                   consVars, histVars>>

\* connect_rabbitmq(): time.sleep(5), then the next attempt.
p_connect_sleep ==
    /\ ppc = "connect_sleep"
    /\ ppc' = "connect"
    /\ UNCHANGED <<pConn, message_count, declared, pRaising, pInterrupts,
                   brokerVars, storeVars, consVars, histVars>>

\* message_count = 0 before the publication loop, whatever it was.
NewSessionCountCarried(n) == n
NewSessionCount(n) == 0

\* declare_exchange(ch), then message_count = 0. On a lost connection
\* exchange_declare raises an error that is no AMQPChannelError: main's
\* `except Exception` logs it and the finally block runs.
p_declare_exchange ==
    /\ ppc = "declare"
    /\ IF pConn.link
       THEN /\ declared' = declared + 1
            /\ message_count' = NewSessionCount(message_count)
            /\ ppc' = "publish"
       ELSE /\ ppc' = "finally"
            /\ UNCHANGED <<declared, message_count>>
    /\ UNCHANGED <<pConn, pRaising, pInterrupts, brokerVars, storeVars, consVars,
                   histVars>>

\* message_count += 1 (the model shows the counter up to MaxCount).
CountUp(n) == IF n < MaxCount THEN n + 1 ELSE n

\* What the publication loop does when publish_message has logged and
\* swallowed the exception of a failed basic_publish: it goes on.
AfterFailedPublish == "sleep"

\* generate_weather_data(), publish_message(ch, payload), message_count += 1.
\* publish_message catches every Exception of basic_publish.
p_publish_message ==
    /\ ppc = "publish"
    /\ ppc' = IF pConn.link THEN "sleep" ELSE AfterFailedPublish
    /\ message_count' = CountUp(message_count)
    /\ UNCHANGED <<pConn, declared, pRaising, pInterrupts, brokerVars, storeVars,
                   consVars, histVars>>

\* time.sleep(2), then the next message.
p_sleep ==
    /\ ppc = "sleep"
    /\ ppc' = "publish"
    /\ UNCHANGED <<pConn, message_count, declared, pRaising, pInterrupts,
                   brokerVars, storeVars, consVars, histVars>>

\* finally: if conn and not conn.is_closed: conn.close().
p_finally ==
    /\ ppc = "finally"
    /\ pConn' = IF pConn.state = "open"
                THEN [state |-> "closed", link |-> FALSE] ELSE pConn
    /\ ppc' = "backoff"
    /\ UNCHANGED <<message_count, declared, pRaising, pInterrupts, brokerVars,
                   storeVars, consVars, histVars>>

\* finally: time.sleep(reconnect_delay); then the loop goes round, unless an
\* exception is on its way out of main().
p_backoff ==
    /\ ppc = "backoff"
    /\ ppc' = IF pRaising THEN "exited" ELSE "connect"
    /\ UNCHANGED <<pConn, message_count, declared, pRaising, pInterrupts,
                   brokerVars, storeVars, consVars, histVars>>

\* Ctrl+C reaches the producer. In the publication loop it is caught by
\* `except KeyboardInterrupt: break`: the finally block runs and the outer
\* loop goes round. While connecting or declaring nothing catches it: the
\* finally block runs and it leaves main(). Raised inside the finally block
\* (conn.close(), time.sleep) it leaves main() at once.
p_KeyboardInterrupt ==
    /\ pInterrupts < MaxInterrupts
    /\ pInterrupts' = pInterrupts + 1
    /\ \/ /\ ppc \in {"publish", "sleep"}
          /\ ppc' = "finally"
          /\ pRaising' = pRaising
       \/ /\ ppc \in {"connect", "connect_sleep", "declare"}
          /\ ppc' = "finally"
          /\ pRaising' = TRUE
       \/ /\ ppc \in {"finally", "backoff"}
          /\ ppc' = "exited"
          /\ pRaising' = TRUE
    /\ UNCHANGED <<pConn, message_count, declared, brokerVars, storeVars, consVars,
                   histVars>>

\* ------------------------------------------------------------ specifications
RECURSIVE SeqsUpTo(_, _)
\* The sequences over S of length 1..n.
SeqsUpTo(S, n) ==
    IF n = 0 THEN {}
    ELSE [1..n -> S] \cup SeqsUpTo(S, n - 1)

InitCommon ==
    /\ queue = [i \in DOMAIN msgs |-> i]
    /\ unacked = {} /\ nextTag = 1 /\ brokerUp = TRUE /\ brokerFaults = 0
    /\ storeUp = TRUE /\ rows = <<>> /\ storeFaults = 0
    /\ chan = NoChannel /\ inbox = <<>> /\ dbConn = "none"
    /\ cpc = "connect_db" /\ cur = NoDelivery /\ verdict = NoVerdict
    /\ failed = "none" /\ afterRecovery = FALSE
    /\ stopping = FALSE /\ interrupts = 0
    /\ fate = [i \in DOMAIN msgs |-> "none"]
    /\ chanSettled = <<>> /\ closeLog = <<>>
    /\ ppc = "connect" /\ pConn = NoConn /\ message_count = 0 /\ declared = 0
    /\ pRaising = FALSE /\ pInterrupts = 0

\* The consumer starts on a queue that holds up to MaxMsgs messages.
Init ==
    /\ msgs \in SeqsUpTo(Bodies, MaxMsgs)
    /\ InitCommon

\* The producer starts; nothing is bound to the exchange yet.
InitProd ==
    /\ msgs = <<>>
    /\ InitCommon

ConsumerStep ==
    \/ connect_db \/ connect_db_sleep \/ connect_rabbitmq \/ connect_rabbitmq_sleep
    \/ basic_consume \/ start_consuming_raises \/ on_message_received
    \/ store_step \/ ack_step \/ ack_undecodable \/ nack_step
    \/ except_sleep \/ finally_rabbit \/ finally_db

ProducerStep ==
    \/ p_connect_rabbitmq \/ p_connect_sleep \/ p_declare_exchange
    \/ p_publish_message \/ p_sleep \/ p_finally \/ p_backoff

Next ==
    \/ ConsumerStep
    \/ BrokerDeliver \/ BrokerFault \/ BrokerRecover
    \/ StoreFault \/ StoreRecover
    \/ KeyboardInterrupt

NextProd ==
    \/ ProducerStep
    \/ BrokerFault \/ BrokerRecover
    \/ p_KeyboardInterrupt

Spec == Init /\ [][Next]_vars

\* One body for each way through the callback: the JSONDecodeError handler,
\* the store call and the ack after it, the `except Exception` handler.
FairBodies == {BadJson, JsonOf(Reading1), JsonOf(NonObject("number", {}))}
FairInit ==
    /\ msgs \in SeqsUpTo(FairBodies, MaxMsgs)
    /\ InitCommon

\* The consumer's loop keeps running (every sleep ends, every call returns),
\* the broker delivers to a consuming channel, and outages end.
FairSpec ==
    /\ FairInit /\ [][Next]_vars
    /\ WF_vars(ConsumerStep)
    /\ WF_vars(BrokerDeliver)
    /\ WF_vars(BrokerRecover)
    /\ WF_vars(StoreRecover)

\* The values a reading's keys are given: missing, of a type that is not a
\* number, and numbers at, inside and outside the limits of each rule.
StationIds == {Absent, Str}
Temperatures ==
    {Absent, Null, Str, Arr, Bool(TRUE), NaN,
     Num(-101), Num(-100), Num(22), Num(100), Num(500)}
Humidities ==
    {Absent, Str, Bool(TRUE), Num(-1), Num(0), Num(50), Num(100), Num(101)}
Winds == {Absent, Null, Str, Bool(TRUE), Num(-1), Num(0), Num(3)}
RequiredKeys == {"station_id", "temperature_c", "humidity_percent"}

\* What json.loads can hand to validate_payload: the objects over these
\* values; a number, a boolean, null; an array and a string without the
\* required key names, and with them.
Payloads ==
    {Object(sid, temp, hum, wind) :
        sid \in StationIds, temp \in Temperatures,
        hum \in Humidities, wind \in Winds}
    \cup {NonObject(kind, {}) : kind \in {"number", "bool", "null"}}
    \cup {NonObject(kind, has) :
            kind \in {"array", "string"}, has \in {{}, RequiredKeys}}

\* The consumer starts on a queue that holds one message, and is not
\* interrupted.
ValInit ==
    /\ msgs \in {<<body>> :
                  body \in {BadBytes, BadJson}
                            \cup {JsonOf(payload) : payload \in Payloads}}
    /\ InitCommon

ValNext ==
    \/ ConsumerStep
    \/ BrokerDeliver \/ BrokerFault \/ BrokerRecover
    \/ StoreFault \/ StoreRecover

ValSpec == ValInit /\ [][ValNext]_vars

ProdSpec == InitProd /\ [][NextProd]_vars

\* The producer's loop keeps running and broker outages end.
FairProdSpec ==
    /\ ProdSpec
    /\ WF_vars(ProducerStep)
    /\ WF_vars(BrokerRecover)

\* -------------------------------------------------------------------- claims
\* The rows stored for message i.
RowsOf(i) == {k \in DOMAIN rows : rows[k].msg = i}
Settled(i) == fate[i] # "none"
\* Message i is settled in this step.
Settles(i) == fate[i] = "none" /\ fate'[i] # "none"
Range(f) == {f[k] : k \in DOMAIN f}

\* C1: every message whose body decoded and that the dispatcher has settled
\* (acked or rejected) has a stored record, whatever the decoded value is and
\* whether or not the store write succeeded.
C1_NoDecodableMessageLost ==
    \A i \in Ids : (Settled(i) /\ Decodable(msgs[i])) => RowsOf(i) # {}

\* C2: a decodable message (here: a reading, a JSON object) that reaches the
\* dispatcher after the store has been unreachable and has become reachable
\* again, and is settled with the store still reachable, has a stored record.
C2_StoreRecovery ==
    [][\A i \in Ids :
         (Settles(i) /\ afterRecovery /\ Decodable(msgs[i])
            /\ msgs[i].val.k = "object")
         => \E k \in DOMAIN rows' : rows'[k].msg = i]_vars

\* C3: whenever the producer is in its publication loop on a connection that
\* is lost, it eventually leaves the loop (to back off and reconnect).
InPublicationLoop == ppc \in {"publish", "sleep"}
C3_PublisherReconnects ==
    [](InPublicationLoop /\ ~pConn.link => <>(~InPublicationLoop))

\* C4: on the consumer's channel at most one delivery is outstanding; the
\* callback handles a delivery only when every earlier delivery of the
\* channel has been settled; the settle signals of a channel go out in
\* strictly increasing delivery-tag order; and every channel that consumes
\* has prefetch 1.
C4_SequentialProcessing ==
    /\ Cardinality(unacked) <= 1
    /\ Len(inbox) + (IF cur = NoDelivery THEN 0 ELSE 1) <= 1
    /\ cur # NoDelivery => \A t \in 1..(cur.tag - 1) : t \in Range(chanSettled)
    /\ \A j \in 1..(Len(chanSettled) - 1) : chanSettled[j] < chanSettled[j + 1]
    /\ chan.consuming => chan.prefetch = 1
\* Two messages have been settled, one after the other, on one channel.
C4_Witness == Len(chanSettled) >= 2

\* C5: a message whose body cannot be decoded is acknowledged (not
\* rejected), leaves no row and is not delivered again.
C5_DecodeFailureAcked ==
    \A i \in Ids :
      (Settled(i) /\ ~Decodable(msgs[i]))
      => /\ fate[i] = "ack"
         /\ RowsOf(i) = {}
         /\ i \notin Range(queue) /\ \A d \in unacked : d.id # i

\* C6: a decodable message in whose handling validation or persistence has
\* failed is settled by a reject, never by an acknowledge.
C6_FailureRejects ==
    [][\A i \in Ids :
         (Settles(i) /\ Decodable(msgs[i]) /\ failed \in {"validate", "persist"})
         => fate'[i] = "nack"]_vars

\* C7: every message delivered to the dispatcher is eventually acknowledged
\* or rejected, unless the dispatcher is stopped by an interrupt; this
\* includes a message whose ack could not be sent and that is redelivered.
Outstanding(i) == i \in Ids /\ \E d \in unacked : d.id = i
C7_NoMessageStuck ==
    \A i \in 1..MaxMsgs :
      [](Outstanding(i) => <>((i \in Ids /\ Settled(i)) \/ cpc = "exited"))
\* A message has been handled twice (two rows) and is settled: its first
\* settle signal was lost and the broker delivered it again.
C7_Witness ==
    \E i \in Ids : Settled(i) /\ Cardinality(RowsOf(i)) >= 2

\* C8: no message has more than one stored row.
C8_AtMostOneRow ==
    \A i \in Ids : Cardinality(RowsOf(i)) <= 1

\* C9 as claimed: when the dispatcher has exited and has closed both
\* connections, it closed the store connection before the broker connection.
C9_StoreClosedFirst ==
    (cpc = "exited" /\ {"store", "broker"} \subseteq Range(closeLog))
    => closeLog = <<"store", "broker">>
\* C9 as amended: the cleanup never closes the store connection before the
\* broker connection, and when the dispatcher has exited no connection it
\* held is left open: the broker connection (if open) was closed first, the
\* store connection (if one was made) second.
C9_BrokerClosedFirst ==
    /\ closeLog \in {<<>>, <<"broker">>, <<"store">>, <<"broker", "store">>}
    /\ cpc = "exited" =>
         /\ chan.state # "open"
         /\ dbConn \in {"none", "closed"}
         /\ dbConn = "closed" => closeLog[Len(closeLog)] = "store"
\* The dispatcher was interrupted while consuming and has exited, having
\* closed both connections.
C9_Witness ==
    cpc = "exited" /\ interrupts > 0 /\ closeLog = <<"broker", "store">>

\* C10: once the producer has been interrupted it publishes no further
\* message and opens no new connection.
C10_ProducerStopsOnInterrupt ==
    [][pInterrupts > 0 =>
         /\ ~(ppc = "publish" /\ pConn.link /\ ppc' = "sleep")
         /\ ~(pConn.state # "open" /\ pConn'.state = "open")]_vars

\* C11: the consumer exits only on an interrupt; whenever it has no live
\* broker connection (at startup, or after the connection was lost) it comes
\* to consume again on a live channel with prefetch 1, unless it is
\* interrupted; and it enters each round of main's loop with the old
\* connections closed, and starts to consume only on a store connection and
\* a channel opened in that round.
Consuming == chan.link /\ chan.consuming /\ chan.prefetch = 1
C11_ConnectivityNeverFatal ==
    /\ [](cpc = "exited" => interrupts > 0)
    /\ []((cpc # "exited" /\ ~chan.link) => <>(Consuming \/ cpc = "exited"))
    /\ [][/\ (cpc # "connect_db" /\ cpc' = "connect_db")
             => (chan'.state # "open" /\ dbConn' \in {"none", "closed"})
          /\ (~chan.consuming /\ chan'.consuming)
             => (chan.state = "open" /\ chan.prefetch = 1
                 /\ dbConn \in {"open", "broken"})]_vars
\* The broker connection was lost, main() went round its loop (the cleanup
\* closed the store connection) and the consumer consumes again.
C11_Witness ==
    Consuming /\ cpc = "waiting" /\ brokerFaults > 0 /\ closeLog = <<"store">>

\* C12: every stored row keeps the payload of its message unchanged in
\* raw_payload; the row of a payload that validation finds out_of_range has
\* a status that begins with "out_of_range"; the row of a payload that
\* validates has the status "ok" and the payload's field values.
C12_StoredStatus ==
    \A k \in DOMAIN rows :
      LET payload == msgs[rows[k].msg].val
          v == validate_payload(payload)
      IN  /\ rows[k].raw_payload = payload
          /\ v.status = "out_of_range" => rows[k].status[1] = "out_of_range"
          /\ v.status = "ok" =>
                /\ rows[k].status = <<"ok">>
                /\ rows[k].temperature_c = payload.temperature_c
                /\ rows[k].humidity_percent = payload.humidity_percent
                /\ rows[k].wind_speed_ms = Get("wind_speed_ms", payload)

\* The callback has decoded the body of the delivery it handles and has
\* called validate_payload on the payload.
Validated == cur # NoDelivery /\ Decodable(msgs[cur.id])
Payload == msgs[cur.id].val
\* A JSON number (NaN, which is in no interval, apart).
IsNumber(x) == x.t = "num"
\* A valid payload, in the words of C13.
ValidReading(payload) ==
    /\ payload.k = "object"
    /\ payload.station_id.t # "absent"
    /\ IsNumber(payload.temperature_c)
    /\ -100 <= payload.temperature_c.v /\ payload.temperature_c.v <= 100
    /\ IsNumber(payload.humidity_percent)
    /\ 0 <= payload.humidity_percent.v /\ payload.humidity_percent.v <= 100
    /\ \/ payload.wind_speed_ms.t = "absent"
       \/ IsNumber(payload.wind_speed_ms) /\ payload.wind_speed_ms.v >= 0

\* C13: validate_payload returns (True, "ok", "") for every valid payload
\* (station_id present, temperature a number in [-100, 100], humidity a
\* number in [0, 100], wind absent or a number >= 0), returns True for no
\* other payload, and returns True exactly when the status is "ok".
C13_AcceptsExactlyValid ==
    Validated =>
      /\ ValidReading(Payload) => verdict = Verdict(TRUE, "ok", <<>>)
      /\ ~verdict.raised =>
           /\ verdict.valid => ValidReading(Payload)
           /\ verdict.valid <=> verdict.status = "ok"

\* The validator's rules, each taken alone: whether the payload breaks the
\* rule, and the status and reason the rule reports. In the order of C14:
\* the required keys; temperature type, temperature range; humidity type,
\* humidity range; wind type, wind sign.
Rule(broken, status, reason) ==
    [broken |-> broken, status |-> status, reason |-> reason]
OutOfRange(x, lo, hi) == IsNumeric(x) /\ (Lt(x, lo) \/ Gt(x, hi))
Rules(payload) ==
    LET temp == Get("temperature_c", payload)
        humidity == Get("humidity_percent", payload)
        wind == Get("wind_speed_ms", payload)
    IN  << Rule(~In("station_id", payload), "invalid",
                <<"falta ", "station_id">>),
           Rule(~In("temperature_c", payload), "invalid",
                <<"falta ", "temperature_c">>),
           Rule(~In("humidity_percent", payload), "invalid",
                <<"falta ", "humidity_percent">>),
           Rule(~IsNumeric(temp), "invalid_type",
                <<"temperatura no es numerica">>),
           Rule(OutOfRange(temp, -100, 100), "out_of_range",
                <<"temperatura ", Fmt(temp), "C fuera de rango [-100, 100]">>),
           Rule(~IsNumeric(humidity), "invalid_type",
                <<"humedad no es numerica">>),
           Rule(OutOfRange(humidity, 0, 100), "out_of_range",
                <<"humedad ", Fmt(humidity), "% debe estar [0, 100]">>),
           Rule(wind.t # "null" /\ ~IsNumeric(wind), "invalid_type",
                <<"viento no es numerico">>),
           Rule(wind.t # "null" /\ IsNumeric(wind) /\ Lt(wind, 0), "out_of_range",
                <<"viento ", Fmt(wind), " m/s no puede ser negativo">>) >>
Broken(payload) ==
    {r \in DOMAIN Rules(payload) : Rules(payload)[r].broken}
Earliest(S) == CHOOSE r \in S : \A q \in S : r <= q

NonNumber(x) == x.t \in {"str", "bool", "null", "array"}
HasRequiredKeys(payload) ==
    /\ payload.k = "object"
    /\ \A key \in RequiredKeys : payload[key].t # "absent"
InRange(x, lo, hi) == IsNumber(x) /\ lo <= x.v /\ x.v <= hi
Rejected(status) ==
    ~verdict.raised /\ ~verdict.valid /\ verdict.status = status

\* C15: for a payload with all required keys, a temperature_c that is not a
\* number is rejected as invalid_type; so is a humidity_percent that is not
\* a number when temperature_c is a number in range; and no payload with
\* such a value in either key is accepted.
C15_NumericTypeRule ==
    (Validated /\ HasRequiredKeys(Payload)) =>
      /\ NonNumber(Payload.temperature_c) => Rejected("invalid_type")
      /\ (InRange(Payload.temperature_c, -100, 100)
            /\ NonNumber(Payload.humidity_percent)) => Rejected("invalid_type")
      /\ (~verdict.raised /\ verdict.valid) =>
            /\ ~NonNumber(Payload.temperature_c)
            /\ ~NonNumber(Payload.humidity_percent)

\* C16: for a payload that passes the required-key, temperature and
\* humidity rules: a wind_speed_ms that is present and is not a number
\* (null included) is rejected as invalid_type, a negative number is
\* rejected as out_of_range, and the payload is accepted without a look at
\* the wind when the key is absent.
C16_OptionalWindRule ==
    (/\ Validated /\ HasRequiredKeys(Payload)
     /\ InRange(Payload.temperature_c, -100, 100)
     /\ InRange(Payload.humidity_percent, 0, 100)) =>
      /\ NonNumber(Payload.wind_speed_ms) => Rejected("invalid_type")
      /\ (IsNumber(Payload.wind_speed_ms) /\ Payload.wind_speed_ms.v < 0)
           => Rejected("out_of_range")
      /\ Payload.wind_speed_ms.t = "absent" => verdict = Verdict(TRUE, "ok", <<>>)

\* C17: for every value json.loads can return, validate_payload returns a
\* verdict whose status is one of ok, invalid, invalid_type, out_of_range;
\* it never raises, so no message takes the reject path because of its
\* validation.
C17_ValidatorTotal ==
    Validated =>
      /\ ~verdict.raised
      /\ verdict.status \in {"ok", "invalid", "invalid_type", "out_of_range"}
      /\ failed # "validate"

C19_AckUnconditional ==
    [][/\ (cur = NoDelivery /\ cur' # NoDelivery
            /\ Decodable(msgs[cur'.id]) /\ ~verdict'.raised) => cpc' = "insert"
       /\ (cpc = "insert" /\ cpc' # "insert") => cpc' = "ack"
       /\ (cpc # "ack" /\ cpc' = "ack") => cpc = "insert"
       /\ (cpc # "insert" /\ cpc' = "insert") => cpc = "waiting"
       /\ rows' # rows => cpc = "insert"
       /\ (cpc = "ack" /\ cpc' # "ack" /\ chan.link) => fate'[cur.id] = "ack"
       /\ \A i \in Ids :
            (Settles(i) /\ Decodable(msgs[i])
               /\ ~validate_payload(msgs[i].val).raised)
            => (cpc = "ack" /\ fate'[i] = "ack")]_vars
\* A message that validation found out of range, and for which the store
\* call wrote nothing, has been acknowledged.
C19_Witness ==
    \E i \in Ids :
      /\ fate[i] = "ack" /\ Decodable(msgs[i]) /\ RowsOf(i) = {}
      /\ validate_payload(msgs[i].val).status = "out_of_range"

\* C20: in a session of the producer the exchange is declared at most once,
\* and exactly once before anything is published; a new connection starts a
\* session with no declaration; the publication loop is entered with the
\* counter at 0, and the counter moves only by the loop's count or back to 0.
C20_DeclareOncePerSession ==
    /\ [](declared <= 1 /\ (InPublicationLoop => declared = 1))
    /\ [][/\ (pConn.state # "open" /\ pConn'.state = "open") => declared' = 0
          /\ (~InPublicationLoop /\ InPublicationLoop') => message_count' = 0
          /\ message_count' # message_count
               => (ppc = "publish" \/ message_count' = 0)]_vars
\* The producer was stopped in its publication loop, has connected again and
\* is about to publish the first message of the new session.
C20_Witness ==
    /\ ppc = "publish" /\ pInterrupts > 0 /\ pConn.link
    /\ declared = 1 /\ message_count = 0

====
